---- MODULE Spec2Model ----
(***************************************************************************)
(* Model of the income-tax engine of src/ganancias.py and the deduction    *)
(* catalog of src/deduccion.py (Python 2).                                 *)
(*                                                                         *)
(* Amounts of money are decimal.Decimal values in pesos, computed as       *)
(* Python computes them under the default context: every +, -, * and /     *)
(* rounds its result to 28 significant digits, ties to even. Quantities    *)
(* and caps of the deduction catalog are whole centavos tagged with their  *)
(* Python type; they become Decimal amounts where the month loop divides   *)
(* their sum.                                                              *)
(*                                                                         *)
(* Python objects are shared by reference: every Sueldo record carries the *)
(* identity of its object (id) and of its deducciones list (lista), and a  *)
(* write through one month reaches every month that holds the same object  *)
(* or the same list.                                                       *)
(***************************************************************************)
EXTENDS Integers, Sequences, FiniteSets, TLC

VARIABLES
  sueldo_bruto,   \* the sueldo_bruto argument of Ganancias.__init__, in pesos
  autonomo,       \* Ganancias._autonomo
  con_aguinaldo,  \* Ganancias._con_aguinaldo
  meses,          \* Ganancias.meses: twelve Sueldo records
  cantidades,     \* _cantidad of each entry of the shared POSIBLES_DEDUCCIONES
  sueldo,         \* a Sueldo record used on its own
  pasadas,        \* completed or failed calls of calcular_ganancias
  traza,          \* the loop's local values at each month of the last pass
  err,            \* the exception the last call raised, or "ok"
  llamada,        \* the last call (and, where recorded, its arguments)
  previo,         \* meses (or the lone sueldo) as the last call found it
  ida,            \* the last successful attach and the record's total before it
  elegido,        \* the position max(self.meses) returned in the last aguinaldo
  nops            \* number of mutator calls so far

vars == <<sueldo_bruto, autonomo, con_aguinaldo, meses, cantidades, sueldo,
          pasadas, traza, err, llamada, previo, ida, elegido, nops>>

(* ---------------------------- bounds ----------------------------------- *)
MaxOps == 2
MaxPasadas == 1
(* largest monthly gross, in pesos, cambiar_mes is given *)
MaxBruto == 16000

(* gross salaries (whole pesos) an engine is built with *)
Brutos == {5000, 8000}

CentavosPorPeso == 10 * 10

(* ------------------------ Decimal amounts ------------------------------ *)
(* decimal.Decimal under the default context: 28 significant digits,       *)
(* ROUND_HALF_EVEN. A value is s * c * Base^e: s the sign, c the           *)
(* coefficient as limbs of four decimal digits, least significant first,   *)
(* with no zero limb at either end, e the exponent counted in limbs. Equal *)
(* values have equal records.                                              *)
Base == 10000
Prec == 28

(* F(e) with e evaluated once *)
Con(e, F(_)) == CHOOSE r \in {F(n) : n \in {e}} : TRUE

Cero == [s |-> 1, c |-> << >>, e |-> 0]

Lim(a, i) == IF 1 <= i /\ i <= Len(a) THEN a[i] ELSE 0
Ceros(k) == [i \in 1..k |-> 0]
Desplazar(a, k) == IF k = 0 THEN a ELSE Ceros(k) \o a

(* decimal digits of a limb *)
Cifras(x) ==
  IF x >= 1000 THEN 4 ELSE IF x >= 100 THEN 3 ELSE IF x >= 10 THEN 2
  ELSE IF x >= 1 THEN 1 ELSE 0
Pot10(k) == IF k = 0 THEN 1 ELSE IF k = 1 THEN 10 ELSE IF k = 2 THEN 100 ELSE 1000

(* positions of the highest and of the lowest nonzero limb, 0 if none *)
Alto(a) ==
  IF \A i \in 1..Len(a) : a[i] = 0 THEN 0
  ELSE CHOOSE i \in 1..Len(a) : a[i] # 0 /\ \A j \in (i + 1)..Len(a) : a[j] = 0
Bajo(a) ==
  IF \A i \in 1..Len(a) : a[i] = 0 THEN 0
  ELSE CHOOSE i \in 1..Len(a) : a[i] # 0 /\ \A j \in 1..(i - 1) : a[j] = 0
Podar(a) == SubSeq(a, 1, Alto(a))

(* the record of s * a * Base^e *)
Canon(s, a, e) ==
  IF Alto(a) = 0 THEN Cero
  ELSE [s |-> s, c |-> SubSeq(a, Bajo(a), Alto(a)), e |-> e + Bajo(a) - 1]

(* limbs of the sum of v[i] * Base^(i-1), the v[i] any integers *)
RECURSIVE AcLoop(_)
AcLoop(st) ==
  IF st.i > Len(st.v) /\ st.k = 0 THEN st.r
  ELSE Con([v |-> st.v, i |-> st.i + 1,
            k |-> (Lim(st.v, st.i) + st.k) \div Base,
            r |-> Append(st.r, (Lim(st.v, st.i) + st.k) % Base)], AcLoop)
Acarrear(v) == AcLoop([v |-> v, i |-> 1, k |-> 0, r |-> << >>])

Max2(x, y) == IF x > y THEN x ELSE y
Min2(x, y) == IF x < y THEN x ELSE y

NAdd(a, b) == Acarrear([i \in 1..Max2(Len(a), Len(b)) |-> Lim(a, i) + Lim(b, i)])
(* a - b for a >= b *)
NSub(a, b) == Acarrear([i \in 1..Len(a) |-> a[i] - Lim(b, i)])

RECURSIVE Conv(_, _, _, _, _)
Conv(a, b, k, i, hi) ==
  IF i > hi THEN 0 ELSE a[i] * b[k + 1 - i] + Conv(a, b, k, i + 1, hi)
NMul(a, b) ==
  Acarrear([k \in 1..(Len(a) + Len(b) - 1) |->
              Conv(a, b, k, Max2(1, k + 1 - Len(b)), Min2(Len(a), k))])

(* -1, 0, 1 as a < b, a = b, a > b; neither has a zero top limb *)
NCmp(a, b) ==
  IF Len(a) # Len(b) THEN (IF Len(a) < Len(b) THEN 0 - 1 ELSE 1)
  ELSE IF a = b THEN 0
  ELSE LET i == CHOOSE i \in 1..Len(a) :
                  a[i] # b[i] /\ \A j \in (i + 1)..Len(a) : a[j] = b[j]
       IN IF a[i] < b[i] THEN 0 - 1 ELSE 1

(* quotient and remainder of a by the limb m, from the top limb down *)
RECURSIVE CortaLoop(_)
CortaLoop(st) ==
  IF st.i = 0 THEN st
  ELSE Con([a |-> st.a, m |-> st.m, i |-> st.i - 1,
            q |-> <<(st.r * Base + st.a[st.i]) \div st.m>> \o st.q,
            r |-> (st.r * Base + st.a[st.i]) % st.m], CortaLoop)
NDivCorta(a, m) == CortaLoop([a |-> a, m |-> m, i |-> Len(a), q |-> << >>, r |-> 0])

(* quotient of a by b, b of two limbs or more, and whether a remainder is  *)
(* left: long division after scaling both so that the top limb of b is at  *)
(* least Base / 2; the quotient limb is then the estimate from the top     *)
(* limbs or one or two below it                                            *)
Cabe(b, d, rem) == NCmp(Podar(NMul(b, <<d>>)), rem) <= 0
Estimado(b, rem) ==
  Min2((Lim(rem, Len(b) + 1) * Base + Lim(rem, Len(b))) \div b[Len(b)], Base - 1)
Limbo(b, rem) ==
  IF Len(rem) < Len(b) THEN 0
  ELSE Con(Estimado(b, rem),
           LAMBDA d :
             IF d = 0 \/ Cabe(b, d, rem) THEN d
             ELSE IF d = 1 \/ Cabe(b, d - 1, rem) THEN d - 1
             ELSE d - 2)

RECURSIVE LargaLoop(_)
LargaLoop(st) ==
  IF st.i = 0 THEN [q |-> st.q, r |-> IF st.rem = << >> THEN 0 ELSE 1]
  ELSE Con(Podar(<<st.a[st.i]>> \o st.rem),
           LAMBDA rem :
             Con(Limbo(st.b, rem),
                 LAMBDA d :
                   Con([a |-> st.a, b |-> st.b, i |-> st.i - 1,
                        q |-> <<d>> \o st.q,
                        rem |-> IF d = 0 THEN rem
                                ELSE Podar(NSub(rem, Podar(NMul(st.b, <<d>>))))],
                       LargaLoop)))
NDivLarga(a, b) ==
  Con(Base \div (b[Len(b)] + 1),
      LAMBDA f :
        Con([a |-> NMul(a, <<f>>), b |-> Podar(NMul(b, <<f>>))],
            LAMBDA n :
              LargaLoop([a |-> n.a, b |-> n.b, i |-> Len(n.a),
                         q |-> << >>, rem |-> << >>])))

(* s * n * Base^e rounded to Prec significant digits, half to even; mas     *)
(* says that the exact value lies above n (a division left a remainder)    *)
Redondeo(s, n, e, mas, h) ==
  LET largo == 4 * (h - 1) + Cifras(n[h])
      sobra == largo - Prec
      dl == sobra \div 4
      dd == sobra % 4
      p == Pot10(dd)
      x == n[dl + 1]
      r == IF dd = 0 THEN n[dl] ELSE x % p
      medio == IF dd = 0 THEN Base \div 2 ELSE p \div 2
      guardado == IF dd = 0 THEN x ELSE x - (x % p)
      resto == mas \/ \E i \in 1..(IF dd = 0 THEN dl - 1 ELSE dl) : n[i] # 0
      impar == (guardado \div p) % 2 = 1
      sube == r > medio \/ (r = medio /\ (resto \/ impar))
  IN IF largo <= Prec THEN Canon(s, n, e)
     ELSE Con(Acarrear([i \in 1..(h - dl) |->
                          IF i = 1 THEN guardado + (IF sube THEN p ELSE 0)
                          ELSE n[dl + i]]),
              LAMBDA v : Canon(s, v, e + dl))

Redondear(s, n, e, mas) ==
  IF Alto(n) = 0 THEN Cero ELSE Redondeo(s, n, e, mas, Alto(n))

(* the Decimal of an int *)
Entero(n) ==
  IF n = 0 THEN Cero
  ELSE Con(Acarrear(<<IF n < 0 THEN 0 - n ELSE n>>),
           LAMBDA v : Canon(IF n < 0 THEN 0 - 1 ELSE 1, v, 0))

EsCero(a) == a.c = << >>
Signo(a) == IF EsCero(a) THEN 0 ELSE a.s
Opuesto(a) == IF EsCero(a) THEN a ELSE [a EXCEPT !.s = 0 - a.s]

(* -1, 0, 1 as |a| < |b|, |a| = |b|, |a| > |b|, neither zero *)
CmpMag(a, b) ==
  IF a.e + Len(a.c) # b.e + Len(b.c)
  THEN (IF a.e + Len(a.c) < b.e + Len(b.c) THEN 0 - 1 ELSE 1)
  ELSE NCmp(Desplazar(a.c, a.e - Min2(a.e, b.e)),
            Desplazar(b.c, b.e - Min2(a.e, b.e)))

DCmp(a, b) ==
  IF Signo(a) # Signo(b) THEN (IF Signo(a) < Signo(b) THEN 0 - 1 ELSE 1)
  ELSE IF Signo(a) = 0 THEN 0
  ELSE Signo(a) * CmpMag(a, b)

DMenor(a, b) == DCmp(a, b) < 0

DSuma(a, b) ==
  IF EsCero(a) THEN b
  ELSE IF EsCero(b) THEN a
  ELSE LET e == Min2(a.e, b.e)
           x == Desplazar(a.c, a.e - e)
           y == Desplazar(b.c, b.e - e)
       IN IF a.s = b.s
          THEN Con(NAdd(x, y), LAMBDA n : Redondear(a.s, n, e, FALSE))
          ELSE Con(NCmp(x, y),
                   LAMBDA cmp :
                     IF cmp = 0 THEN Cero
                     ELSE IF cmp > 0
                     THEN Con(NSub(x, y), LAMBDA n : Redondear(a.s, n, e, FALSE))
                     ELSE Con(NSub(y, x), LAMBDA n : Redondear(b.s, n, e, FALSE)))

DResta(a, b) == DSuma(a, Opuesto(b))

DPor(a, b) ==
  IF EsCero(a) \/ EsCero(b) THEN Cero
  ELSE Con(NMul(a.c, b.c), LAMBDA n : Redondear(a.s * b.s, n, a.e + b.e, FALSE))

(* b is not zero *)
DDiv(a, b) ==
  IF EsCero(a) THEN Cero
  ELSE LET k == Max2(0, Len(b.c) - Len(a.c) + 9) IN
       Con(IF Len(b.c) = 1 THEN NDivCorta(Desplazar(a.c, k), b.c[1])
           ELSE NDivLarga(Desplazar(a.c, k), b.c),
           LAMBDA d : Redondear(a.s * b.s, d.q, a.e - b.e - k, d.r # 0))

(* ------------------------ Python values -------------------------------- *)
Nada == [tipo |-> "None", v |-> 0]
Dec(c) == [tipo |-> "Decimal", v |-> c]
PyInt(n) == [tipo |-> "int", v |-> n * CentavosPorPeso]
Idx(k) == [tipo |-> "int", v |-> k]
Maxint == [tipo |-> "maxint", v |-> 0]

(* PyInt(n): the int n as an amount of pesos; Idx(k): the int k as a list   *)
(* position. Truth value of an optional int argument: None and 0 are false *)
Truthy(x) == x.tipo # "None" /\ x.v # 0

OK == "ok"
ErrTipo == "ValueError: Tipo de deduccion invalida"
ErrRemove == "ValueError: list.remove(x): x not in list"
ErrIndex == "IndexError"
ErrAttr == "AttributeError"
ErrType == "TypeError"
ErrDivCero == "DivisionByZero"
ErrIndefinida == "InvalidOperation"
ErrSueldo == "TypeError: El sueldo debe ser una instancia de 'Sueldo'"
ErrSeguridad == "ValueError: Por seguridad la operacion no puede tener otro caracter"
ErrCantidad == "ValueError: La cantidad es siempre necesaria"

(* ------------------------ src/deduccion.py ----------------------------- *)
CONYUGE == 0
HIJOS == 1
PADRES_Y_OTROS == 2
CREDITO_HIPOTECARIO == 3
SEGURO_DE_VIDA == 4
DONACIONES == 5
MEDICINA_PREPAGA == 6
HOSPITALIZACION == 7
SEPELIO == 8
SEGURO_RETIRO == 9
EMPLEADO_DOMESTICO == 10
ASISTENCIA_SANITARIA == 11
DEDUCCION_ESPECIAL_REL == 12
DEDUCCION_ESPECIAL_AUTON == 13
GANANCIA_NO_IMPONIBLE == 14

(* A cap expression is the token sequence of its template string: a number *)
(* literal (in centavos, or in hundredths for a factor), an operator or a  *)
(* {placeholder}.                                                          *)
Num(c) == [t |-> "num", c |-> c, n |-> ""]
Op(o) == [t |-> "op", c |-> 0, n |-> o]
Ph(a) == [t |-> "ph", c |-> 0, n |-> a]

(* Deduccion.__init__: without a quantity and without a cap expression it  *)
(* raises ValueError; else obj is the object built, with _cantidad =       *)
(* cantidad and Decimal(str(cantidad)), _max = maximo, ganancias = None    *)
Deduccion(cantidad, maximo, aut, rel) ==
  IF ~Truthy(cantidad) /\ maximo = << >>
  THEN [err |-> ErrCantidad, obj |-> Nada]
  ELSE [err |-> OK,
        obj |-> [cantidad |-> IF Truthy(cantidad) THEN Dec(cantidad.v)
                              ELSE cantidad,
                 max |-> maximo, autonomo |-> aut, rel_de_dep |-> rel,
                 ganancias |-> "None"]]

POSIBLES_DEDUCCIONES ==
  << Deduccion(Dec(1000000), << >>, TRUE, TRUE).obj,
     Deduccion(Dec(500000), << >>, TRUE, TRUE).obj,
     Deduccion(Dec(375000), << >>, TRUE, TRUE).obj,
     Deduccion(Nada, <<Num(2000000)>>, TRUE, TRUE).obj,
     Deduccion(Nada, <<Num(99623)>>, TRUE, TRUE).obj,
     Deduccion(Nada, <<Ph("ganancia_neta_anual"), Op("*"), Num(5)>>, TRUE, TRUE).obj,
     Deduccion(Nada, <<Ph("ganancia_neta_anual"), Op("*"), Num(5)>>, TRUE, TRUE).obj,
     Deduccion(Nada, <<Ph("ganancia_neta_anual"), Op("*"), Num(5)>>, TRUE, TRUE).obj,
     Deduccion(Nada, <<Num(99623)>>, TRUE, TRUE).obj,
     Deduccion(Nada, <<Num(126116)>>, TRUE, TRUE).obj,
     Deduccion(Nada, <<Num(900000)>>, TRUE, TRUE).obj,
     Deduccion(Nada, <<Num(40), Op("*"), Ph("_cantidad")>>, TRUE, TRUE).obj,
     Deduccion(Dec(4320000), << >>, FALSE, TRUE).obj,
     Deduccion(Dec(900000), << >>, TRUE, FALSE).obj,
     Deduccion(Dec(900000), << >>, TRUE, TRUE).obj >>

NDeducciones == Len(POSIBLES_DEDUCCIONES)

(* catalog positions 0..14 are kept at sequence positions 1..15 *)
Entrada(d) == POSIBLES_DEDUCCIONES[d + 1]

(* the _cantidad attribute of every catalog entry at import time *)
CantidadesIniciales == [d \in 0..(NDeducciones - 1) |-> Entrada(d).cantidad]

(* re.findall('{(.*?)}', self._max) *)
Placeholders(tokens) == SelectSeq(tokens, LAMBDA k : k.t = "ph")

(* re.match('^[\d \*\+\.\-/]+$', maximo): only numbers and operators *)
Segura(tokens) == \A i \in 1..Len(tokens) : tokens[i].t \in {"num", "op"}

(* Decimal(str(eval(maximo))), in centavos: the expressions that reach     *)
(* eval are the lone literals of the catalog                               *)
Eval(tokens) == tokens[1].c

(* Deduccion._calcular_maximo: sys.maxint without a cap expression; every  *)
(* placeholder is read with getattr(self.ganancias, name), and ganancias   *)
(* is None, so an expression with a placeholder raises AttributeError      *)
Deduccion_calcular_maximo(d) ==
  LET e == Entrada(d) IN
  IF e.max = << >> THEN [err |-> OK, val |-> Maxint]
  ELSE IF Placeholders(e.max) # << >> /\ e.ganancias = "None"
       THEN [err |-> ErrAttr, val |-> Nada]
  ELSE IF ~Segura(e.max) THEN [err |-> ErrSeguridad, val |-> Nada]
  ELSE [err |-> OK, val |-> Dec(Eval(e.max))]

(* Python 2 min(a, b): b when b < a, else a; None orders below every       *)
(* number and every model quantity is below sys.maxint                     *)
py_min(a, b) ==
  IF a.tipo = "None" \/ b.tipo = "maxint" THEN a
  ELSE IF b.v < a.v THEN b ELSE a

(* Deduccion._get_cantidad: min(self._cantidad, self.maximo) *)
Deduccion_get_cantidad(cat, d) ==
  LET m == Deduccion_calcular_maximo(d) IN
  IF m.err # OK THEN [err |-> m.err, val |-> Nada]
  ELSE [err |-> OK, val |-> py_min(cat[d], m.val)]

(* Deduccion._set_cantidad *)
Deduccion_set_cantidad(cat, d, val) == [cat EXCEPT ![d] = val]

(* The loops below carry their state in a record; "CHOOSE r \in {F(n) : n  *)
(* \in {e}}" is F(e) with e evaluated once.                                *)

(* one term of sum((d.cantidad for d in sueldo.deducciones)): reading the  *)
(* quantity may raise, adding None raises TypeError; the sum is an int     *)
(* only while every term is an int                                         *)
SumaTermino(acc, c) ==
  IF c.err # OK THEN [err |-> c.err, val |-> acc.val]
  ELSE IF c.val.tipo = "None" THEN [err |-> ErrType, val |-> acc.val]
  ELSE [err |-> OK,
        val |-> [tipo |-> IF acc.val.tipo = "int" /\ c.val.tipo = "int"
                          THEN "int" ELSE "Decimal",
                 v |-> acc.val.v + c.val.v]]

(* the terms from position i on, acc being the sum so far *)
RECURSIVE SumaLoop(_, _, _, _)
SumaLoop(cat, ds, i, acc) ==
  IF i > Len(ds) \/ acc.err # OK THEN acc
  ELSE CHOOSE r \in
         {SumaLoop(cat, ds, i + 1, n) :
            n \in {SumaTermino(acc, Deduccion_get_cantidad(cat, ds[i]))}} : TRUE

(* sum((d.cantidad for d in sueldo.deducciones)): starts from the int 0 *)
SumaCantidades(cat, ds) ==
  SumaLoop(cat, ds, 1, [err |-> OK, val |-> PyInt(0)])

(* ------------------------ src/ganancias.py ----------------------------- *)
(* Decimal('c/100') for a whole number c of hundredths *)
Centesimos(c) == DDiv(Entero(c), Entero(100))

(* ALICUOTAS: (porc, excede, fijo) per bracket *)
ALICUOTAS ==
  << [porc |-> Centesimos(9), excede |-> Entero(0), fijo |-> Entero(0)],
     [porc |-> Centesimos(14), excede |-> Entero(10000), fijo |-> Entero(900)],
     [porc |-> Centesimos(19), excede |-> Entero(20000), fijo |-> Entero(2300)],
     [porc |-> Centesimos(23), excede |-> Entero(30000), fijo |-> Entero(4200)],
     [porc |-> Centesimos(27), excede |-> Entero(60000), fijo |-> Entero(11100)],
     [porc |-> Centesimos(31), excede |-> Entero(90000), fijo |-> Entero(19200)],
     [porc |-> Centesimos(35), excede |-> Entero(120000), fijo |-> Entero(28500)] >>

(* APORTES: (name, rate) *)
APORTES ==
  << [nombre |-> "Jubilacion", porc |-> Centesimos(11)],
     [nombre |-> "INSSJP", porc |-> Centesimos(3)],
     [nombre |-> "Obra Social", porc |-> Centesimos(3)] >>

NMeses == 12

(* the sentinel -1 of Sueldo._impuesto_ganancias *)
SinCalcular == Entero(0 - 1)

(* Sueldo.__init__: bruto = Decimal(str(sueldo_bruto)) for a whole number  *)
(* of pesos, and a new empty list; ref names the new object and its list   *)
Sueldo(pesos, ref) ==
  [bruto |-> Entero(pesos), deducciones |-> << >>,
   impuesto |-> SinCalcular, id |-> ref, lista |-> ref]

(* the reference of a temporary, an object no month holds *)
Temporal == 0

(* a reference no month other than position i holds, neither as object nor *)
(* as list: the object position i held is dropped by the assignment        *)
Libre(ms, i) ==
  LET usadas == {ms[j].id : j \in DOMAIN ms \ {i}}
                  \cup {ms[j].lista : j \in DOMAIN ms \ {i}}
      libres == (1..(2 * Len(ms))) \ usadas
  IN CHOOSE r \in libres : \A x \in libres : r <= x

(* Sueldo.clonar with the new bruto: a new object (ref) that keeps the     *)
(* impuesto and, by reference, the deducciones list                        *)
Sueldo_clonar(s, bruto, ref) == [s EXCEPT !.bruto = bruto, !.id = ref]

(* "if isinstance(num, Sueldo): num = num.bruto": the operand of /, + and  *)
(* * is a Sueldo or a number                                               *)
EsSueldo(num) == "bruto" \in DOMAIN num
Operando(num) == IF EsSueldo(num) THEN num.bruto ELSE num

(* Sueldo.__div__: nuevo_sueldo.bruto /= num. A zero divisor raises        *)
(* DivisionByZero, and InvalidOperation when the gross is zero too         *)
Sueldo_div(s, num, ref) ==
  IF EsCero(Operando(num))
  THEN [err |-> IF EsCero(s.bruto) THEN ErrIndefinida ELSE ErrDivCero, s |-> s]
  ELSE [err |-> OK, s |-> Sueldo_clonar(s, DDiv(s.bruto, Operando(num)), ref)]

(* Sueldo.__add__ / __radd__: nuevo_sueldo.bruto += num *)
Sueldo_add(s, num, ref) == Sueldo_clonar(s, DSuma(s.bruto, Operando(num)), ref)

(* Sueldo.__mul__: nuevo_sueldo.bruto *= num *)
Sueldo_mul(s, num, ref) == Sueldo_clonar(s, DPor(s.bruto, Operando(num)), ref)

(* self.deducciones.append / remove seen through every month that holds    *)
(* the list                                                                *)
EscribirLista(ms, lista, ds) ==
  [j \in DOMAIN ms |->
     IF ms[j].lista = lista THEN [ms[j] EXCEPT !.deducciones = ds] ELSE ms[j]]

(* Sueldo._set_impuesto_ganancias seen through every month that holds the  *)
(* object                                                                  *)
Sueldo_set_impuesto_ganancias(ms, id, value) ==
  [j \in DOMAIN ms |->
     IF ms[j].id = id THEN [ms[j] EXCEPT !.impuesto = value] ELSE ms[j]]

(* bool(sueldo): Sueldo defines neither __nonzero__ nor __len__ *)
Sueldo_bool(s) == TRUE

(* the slice taken one month short: self.meses[idx + 1:ciclo] *)
MesesDelCicloCorto(ms, ciclo) ==
  Cardinality({i \in (ciclo - 4)..ciclo : Sueldo_bool(ms[i])})

(* len([suel for suel in self.meses[idx:ciclo] if suel]) *)
MesesDelCiclo(ms, ciclo) ==
  Cardinality({i \in (ciclo - 5)..ciclo : Sueldo_bool(ms[i])})

(* the body of "for ciclo in (6, 12)": meses / 6 is an int division *)
Prorratear(ms, ciclo) ==
  LET n == MesesDelCiclo(ms, ciclo) IN
  IF n # 6
  THEN [ms EXCEPT ![ciclo] =
          Sueldo_mul(ms[ciclo], Entero(n \div 6), Libre(ms, ciclo))]
  ELSE ms

(* the aguinaldo added to June only *)
AguinaldoSoloJunio(ms, con, k) ==
  IF con
  THEN [ms EXCEPT ![6] =
          Sueldo_add(ms[6], Sueldo_div(ms[k], Entero(2), Temporal).s,
                     Libre(ms, 6))]
  ELSE ms

(* "self.meses[5] += sueldo_maximo / 2; self.meses[11] += sueldo_maximo / 2" *)
SumarAguinaldo(ms, sueldo_maximo) ==
  LET medio == Sueldo_div(sueldo_maximo, Entero(2), Temporal).s
      m1 == [ms EXCEPT ![6] = Sueldo_add(ms[6], medio, Libre(ms, 6))]
  IN [m1 EXCEPT ![12] = Sueldo_add(m1[12], medio, Libre(m1, 12))]

(* Ganancias._calcular_aguinaldo. k is the position max(self.meses) picks:  *)
(* Sueldo defines no comparison, so Python 2 orders the records by address *)
Ganancias_calcular_aguinaldo(ms, con, k) ==
  IF con
  THEN Prorratear(Prorratear(SumarAguinaldo(ms, ms[k]), 6), 12)
  ELSE ms

(* "self.meses = [Sueldo(sueldo_bruto) for i in xrange(12)]" *)
DoceSueldos(pesos) == [i \in 1..NMeses |-> Sueldo(pesos, i)]

(* Ganancias.__init__: twelve Sueldo(sueldo_bruto), then the aguinaldo *)
Ganancias_init(pesos, con, k) ==
  Ganancias_calcular_aguinaldo(DoceSueldos(pesos), con, k)

RECURSIVE SumaBrutos(_, _)
SumaBrutos(ms, n) ==
  IF n = 0 THEN Cero ELSE DSuma(SumaBrutos(ms, n - 1), ms[n].bruto)

(* Ganancias._bruto_anual: sum(self.meses).bruto *)
Ganancias_bruto_anual(ms) == SumaBrutos(ms, Len(ms))

(* ----------------------- Sueldo mutators ------------------------------- *)
(* the guard of both mutators: "deduccion < 0 or deduccion > len(...)"     *)
TipoInvalido(d) == d < 0 \/ d > NDeducciones

(* POSIBLES_DEDUCCIONES[deduccion] for a deduccion that passed the guard *)
FueraDeLista(d) == d >= NDeducciones

(* Sueldo.agregar_deduccion: an override quantity is written into the      *)
(* shared catalog entry before the entry is appended                       *)
Sueldo_agregar_deduccion(s, cat, d, q) ==
  IF TipoInvalido(d) THEN [s |-> s, cat |-> cat, err |-> ErrTipo]
  ELSE IF FueraDeLista(d) THEN [s |-> s, cat |-> cat, err |-> ErrIndex]
  ELSE [s |-> [s EXCEPT !.deducciones = Append(@, d)],
        cat |-> IF Truthy(q) THEN Deduccion_set_cantidad(cat, d, q) ELSE cat,
        err |-> OK]

(* list.remove(x): drops the first element equal to x *)
RECURSIVE list_remove(_, _)
list_remove(ds, d) ==
  IF ds = << >> THEN << >>
  ELSE IF Head(ds) = d THEN Tail(ds)
  ELSE <<Head(ds)>> \o list_remove(Tail(ds), d)

Contiene(ds, d) == \E i \in 1..Len(ds) : ds[i] = d

(* Sueldo.eliminar_deduccion *)
Sueldo_eliminar_deduccion(s, cat, d) ==
  IF TipoInvalido(d) THEN [s |-> s, cat |-> cat, err |-> ErrTipo]
  ELSE IF FueraDeLista(d) THEN [s |-> s, cat |-> cat, err |-> ErrIndex]
  ELSE IF ~Contiene(s.deducciones, d)
       THEN [s |-> s, cat |-> cat, err |-> ErrRemove]
  ELSE [s |-> [s EXCEPT !.deducciones = list_remove(@, d)], cat |-> cat, err |-> OK]

(* ---------------------- Ganancias mutators ----------------------------- *)
(* self.meses[mes]: the 1-based position of a Python list index, 0 when    *)
(* the index is out of range (IndexError)                                  *)
PyIndex(mes) ==
  IF 0 <= mes /\ mes < NMeses THEN mes + 1
  ELSE IF 0 - NMeses <= mes /\ mes < 0 THEN mes + NMeses + 1
  ELSE 0

(* "meses = [mes] if mes else xrange(12)" *)
MesesDe(mes) ==
  IF Truthy(mes) THEN <<mes.v>> ELSE [i \in 1..NMeses |-> i - 1]

(* one turn of "for mes in meses: self.meses[mes].agregar_deduccion(...)"  *)
AgregarEnMes(e, d, q, mes) ==
  LET i == PyIndex(mes) IN
  IF i = 0 THEN [e EXCEPT !.err = ErrIndex]
  ELSE LET r == Sueldo_agregar_deduccion(e.meses[i], e.cat, d, q) IN
       IF r.err # OK THEN [e EXCEPT !.err = r.err]
       ELSE [meses |-> EscribirLista(e.meses, r.s.lista, r.s.deducciones),
             cat |-> r.cat, err |-> OK]

(* the loop stops at the first exception and keeps what it did before *)
RECURSIVE AgregarLoop(_, _, _, _, _)
AgregarLoop(e, d, q, idxs, j) ==
  IF j > Len(idxs) \/ e.err # OK THEN e
  ELSE CHOOSE r \in
         {AgregarLoop(n, d, q, idxs, j + 1) :
            n \in {AgregarEnMes(e, d, q, idxs[j])}} : TRUE

(* Ganancias.agregar_deduccion *)
Ganancias_agregar_deduccion(ms, cat, d, q, mes) ==
  AgregarLoop([meses |-> ms, cat |-> cat, err |-> OK], d, q, MesesDe(mes), 1)

(* one turn of "for mes in meses: self.meses[mes].eliminar_deduccion(...)" *)
EliminarEnMes(e, d, mes) ==
  LET i == PyIndex(mes) IN
  IF i = 0 THEN [e EXCEPT !.err = ErrIndex]
  ELSE LET r == Sueldo_eliminar_deduccion(e.meses[i], e.cat, d) IN
       IF r.err # OK THEN [e EXCEPT !.err = r.err]
       ELSE [meses |-> EscribirLista(e.meses, r.s.lista, r.s.deducciones),
             cat |-> r.cat, err |-> OK]

RECURSIVE EliminarLoop(_, _, _, _)
EliminarLoop(e, d, idxs, j) ==
  IF j > Len(idxs) \/ e.err # OK THEN e
  ELSE CHOOSE r \in
         {EliminarLoop(n, d, idxs, j + 1) :
            n \in {EliminarEnMes(e, d, idxs[j])}} : TRUE

(* Ganancias.eliminar_deduccion *)
Ganancias_eliminar_deduccion(ms, cat, d, mes) ==
  EliminarLoop([meses |-> ms, cat |-> cat, err |-> OK], d, MesesDe(mes), 1)

(* ----------------------- Ganancias.cambiar_mes ------------------------- *)
(* the sueldo argument as the caller writes it: something that is not a    *)
(* Sueldo, Sueldo(pesos), self.meses[j], self.meses[j] * n or              *)
(* self.meses[j] / n                                                       *)
NoSueldo == [forma |-> "otro", j |-> 0, n |-> 0]
SueldoNuevo(pesos) == [forma |-> "nuevo", j |-> 0, n |-> pesos]
ElDelMes(j) == [forma |-> "mes", j |-> j, n |-> 0]
ElDelMesPor(j, n) == [forma |-> "por", j |-> j, n |-> n]
ElDelMesEntre(j, n) == [forma |-> "entre", j |-> j, n |-> n]

(* the object the argument evaluates to, or the exception its evaluation  *)
(* raises; ref names the object a constructor or a clone makes             *)
Argumento(ms, arg, ref) ==
  CASE arg.forma = "nuevo" -> [err |-> OK, s |-> Sueldo(arg.n, ref)]
    [] arg.forma = "mes" -> [err |-> OK, s |-> ms[PyIndex(arg.j)]]
    [] arg.forma = "por" ->
         [err |-> OK, s |-> Sueldo_mul(ms[PyIndex(arg.j)], Entero(arg.n), ref)]
    [] arg.forma = "entre" -> Sueldo_div(ms[PyIndex(arg.j)], Entero(arg.n), ref)

(* the exception raised while the argument is evaluated, before the call *)
ArgumentoErr(ms, arg) ==
  IF arg.forma = "otro" THEN OK ELSE Argumento(ms, arg, Temporal).err

(* Ganancias.cambiar_mes(mes, sueldo): the type is checked first, then     *)
(* self.meses[mes - 1] is replaced by the object given; bonos is not used  *)
Ganancias_cambiar_mes(ms, mes, arg) ==
  IF ArgumentoErr(ms, arg) # OK
  THEN [meses |-> ms, err |-> ArgumentoErr(ms, arg)]
  ELSE IF arg.forma = "otro" THEN [meses |-> ms, err |-> ErrSueldo]
  ELSE LET i == PyIndex(mes - 1) IN
       IF i = 0 THEN [meses |-> ms, err |-> ErrIndex]
       ELSE [meses |-> [ms EXCEPT ![i] = Argumento(ms, arg, Libre(ms, i)).s],
             err |-> OK]

(* -------------------- Ganancias.calcular_ganancias --------------------- *)
(* Python max(a, b): b when b > a, else a; of two ints and of two amounts  *)
py_max(a, b) == IF b > a THEN b ELSE a
dec_max(a, b) == IF DMenor(a, b) THEN b ELSE a

(* Sueldo._aportes: (name, bruto * rate) per entry of APORTES *)
Sueldo_aportes(s) ==
  [i \in 1..Len(APORTES) |->
     [nombre |-> APORTES[i].nombre, monto |-> DPor(s.bruto, APORTES[i].porc)]]

(* sum((monto for aporte, monto in sueldo.aportes)): starts from the int 0 *)
RECURSIVE SumaMontos(_, _)
SumaMontos(as, n) ==
  IF n = 0 THEN Cero ELSE DSuma(SumaMontos(as, n - 1), as[n].monto)

(* "sueldo.bruto - aportes" with aportes = sum of the month's aportes *)
NetoDelMes(s) ==
  Con(Sueldo_aportes(s), LAMBDA as : DResta(s.bruto, SumaMontos(as, Len(as))))

(* "neto_acumulado = ..." in place of "+=" *)
AcumularNetoSinSuma(neto_acumulado, s) == NetoDelMes(s)

(* "neto_acumulado += sueldo.bruto - aportes" *)
AcumularNeto(neto_acumulado, s) == DSuma(neto_acumulado, NetoDelMes(s))

(* "(x / 12) * mes" *)
Escalado(x, mes) == DPor(DDiv(x, Entero(12)), Entero(mes))

(* "(r[1] / 12) * mes" and "(fijo / 12) * mes" of every bracket at every   *)
(* month: they depend on nothing else, and are worked out once             *)
EscalaDelAnio ==
  [mes \in 1..NMeses |->
     [i \in 1..Len(ALICUOTAS) |->
        [excede |-> Escalado(ALICUOTAS[i].excede, mes),
         fijo |-> Escalado(ALICUOTAS[i].fijo, mes)]]]

(* "rango_sueldos = [(r[1] / 12) * mes for r in ALICUOTAS]" *)
rango_sueldos(mes) ==
  [i \in 1..Len(ALICUOTAS) |-> EscalaDelAnio[mes][i].excede]

(* "deducciones = (deducciones / 12) * mes": an int sum is divided with    *)
(* Python 2's floor division, a Decimal sum as a Decimal                   *)
DeduccionesDelMes(suma, mes) ==
  IF suma.tipo = "int"
  THEN Entero(((suma.v \div CentavosPorPeso) \div 12) * mes)
  ELSE Escalado(Centesimos(suma.v), mes)

(* "gravado = max(neto_acumulado - deducciones, 0)" *)
Gravado(neto_acumulado, deducciones) ==
  dec_max(DResta(neto_acumulado, deducciones), Cero)

(* bisect.bisect_left(a, x) with 0-based lo and hi *)
RECURSIVE Bisect(_, _, _, _)
Bisect(a, x, lo, hi) ==
  IF lo < hi
  THEN IF DMenor(a[((lo + hi) \div 2) + 1], x)
       THEN Bisect(a, x, ((lo + hi) \div 2) + 1, hi)
       ELSE Bisect(a, x, lo, (lo + hi) \div 2)
  ELSE lo

bisect_left(a, x) == Bisect(a, x, 0, Len(a))

(* "idx = max(bisect_left(rango_sueldos, gravado) - 1, 0)" *)
Indice(rango, gravado) == py_max(bisect_left(rango, gravado) - 1, 0)

(* the bracket's fixed amount left out *)
ImpuestoTablaSinFijo(idx, gravado, mes) ==
  DPor(DResta(gravado, EscalaDelAnio[mes][idx + 1].excede),
       ALICUOTAS[idx + 1].porc)

(* "fijo + (gravado - excede) * porc" with "fijo = (fijo / 12) * mes" and  *)
(* "excede = (excede / 12) * mes"                                          *)
ImpuestoTabla(idx, gravado, mes) ==
  DSuma(EscalaDelAnio[mes][idx + 1].fijo,
        DPor(DResta(gravado, EscalaDelAnio[mes][idx + 1].excede),
             ALICUOTAS[idx + 1].porc))

(* "impuesto = (fijo + (gravado - excede) * porc) - impuesto_acumulado",   *)
(* tabla being the value of the bracket formula                            *)
Impuesto(tabla, impuesto_acumulado) == DResta(tabla, impuesto_acumulado)

(* the floor at 0 left out *)
ImpuestoSinPiso(impuesto) == impuesto

(* "sueldo.impuesto_ganancias = max(impuesto, 0)" *)
ImpuestoGuardado(impuesto) == dec_max(impuesto, Cero)

(* the floored amount accumulated in place of the pre-floor one *)
AcumularConPiso(impuesto_acumulado, impuesto) ==
  DSuma(impuesto_acumulado, dec_max(impuesto, Cero))

(* "impuesto_acumulado += impuesto" *)
AcumularImpuesto(impuesto_acumulado, impuesto) ==
  DSuma(impuesto_acumulado, impuesto)

(* the state the month's turn leaves, its local values added to the trace *)
FinDelMes(e, neto, gravado, idx, tabla, impuesto, guardado, acum) ==
  [meses |-> Sueldo_set_impuesto_ganancias(e.meses, e.meses[e.mes].id, guardado),
   traza |-> Append(e.traza,
               [mes |-> e.mes, gravado |-> gravado, idx |-> idx,
                tabla |-> tabla, impuesto |-> impuesto, guardado |-> guardado,
                acum_previo |-> e.impuesto_acumulado, acum |-> acum]),
   err |-> OK, mes |-> e.mes + 1,
   neto_acumulado |-> neto, impuesto_acumulado |-> acum]

(* the rest of a month's turn once the deductions are summed and the net   *)
(* is accumulated                                                          *)
CerrarMes(e, neto, gravado) ==
  Con(Indice(rango_sueldos(e.mes), gravado),
      LAMBDA idx :
        Con(ImpuestoTabla(idx, gravado, e.mes),
            LAMBDA tabla :
              Con(Impuesto(tabla, e.impuesto_acumulado),
                  LAMBDA impuesto :
                    FinDelMes(e, neto, gravado, idx, tabla, impuesto,
                              ImpuestoGuardado(impuesto),
                              AcumularImpuesto(e.impuesto_acumulado, impuesto)))))

(* one turn of "for mes, sueldo in enumerate(self.meses)"; an exception of *)
(* the deduction sum leaves the months before it computed and the rest as  *)
(* they were                                                               *)
Iteracion(e, cat) ==
  Con(SumaCantidades(cat, e.meses[e.mes].deducciones),
      LAMBDA suma :
        IF suma.err # OK THEN [e EXCEPT !.err = suma.err]
        ELSE Con(AcumularNeto(e.neto_acumulado, e.meses[e.mes]),
                 LAMBDA neto :
                   Con(Gravado(neto, DeduccionesDelMes(suma.val, e.mes)),
                       LAMBDA gravado : CerrarMes(e, neto, gravado))))

RECURSIVE Bucle(_, _)
Bucle(e, cat) ==
  IF e.mes > NMeses \/ e.err # OK THEN e
  ELSE CHOOSE r \in {Bucle(n, cat) : n \in {Iteracion(e, cat)}} : TRUE

(* Ganancias.calcular_ganancias: attach the two mandatory deductions to     *)
(* the whole year, then run the month loop                                  *)
Ganancias_calcular_ganancias(ms, cat, aut) ==
  LET a1 == Ganancias_agregar_deduccion(ms, cat, GANANCIA_NO_IMPONIBLE, Nada, Nada)
      a2 == Ganancias_agregar_deduccion(a1.meses, a1.cat,
              IF aut THEN DEDUCCION_ESPECIAL_AUTON ELSE DEDUCCION_ESPECIAL_REL,
              Nada, Nada)
  IN Bucle([meses |-> a2.meses, traza |-> << >>, err |-> OK, mes |-> 1,
            neto_acumulado |-> Cero, impuesto_acumulado |-> Cero],
           a2.cat)

(* Sueldo._impuesto_ganancias (getter): raises while the sentinel is set *)
Sueldo_impuesto_ganancias(s) ==
  IF s.impuesto = SinCalcular THEN [err |-> "ValueError", val |-> Cero]
  ELSE [err |-> OK, val |-> s.impuesto]

(* ------------------------ "%.2f" % Decimal ----------------------------- *)
(* "%.2f" % x converts the Decimal x to the nearest binary double (53 bits *)
(* of mantissa, ties to even) and prints that double rounded to two        *)
(* decimals, ties to even. With q = floor(100 x) the result is q or q + 1  *)
(* centavos as the double lies below or above t = (2q + 1) / 200 pesos,    *)
(* and the even one of the two when the double is t itself.                *)

(* limbs of 2^n *)
RECURSIVE Pot2(_)
Pot2(n) == IF n <= 13 THEN <<2^n>> ELSE NMul(Pot2(n - 13), <<2^13>>)

(* floor(log2(k / 200)) for k > 0 *)
RECURSIVE Exponente(_)
Exponente(k) ==
  IF k >= 400 THEN Exponente(k \div 2) + 1
  ELSE IF k < 200 THEN Exponente(2 * k) - 1
  ELSE 0

(* floor(100 x) for x >= 0, an int *)
Piso100(x) ==
  IF EsCero(x) THEN 0
  ELSE Con(NMul(x.c, <<100>>),
           LAMBDA p :
             Con(IF x.e >= 0 THEN Desplazar(p, x.e)
                 ELSE IF 0 - x.e >= Len(p) THEN << >>
                 ELSE SubSeq(p, 1 - x.e, Len(p)),
                 LAMBDA v :
                   Lim(v, 1) + Base * Lim(v, 2) + Base * Base * Lim(v, 3)))

(* -1, 0, 1 as n * Base^e is below, on or above the whole number m; n and  *)
(* m are limbs without a zero top limb                                     *)
CmpEscala(n, e, m) ==
  IF e >= 0 THEN NCmp(Desplazar(n, e), m) ELSE NCmp(n, Desplazar(m, 0 - e))

(* -1, 0, 1 as the double of x >= 0 is below, on or above t = k / 200,     *)
(* k = 2q + 1. With K = 52 - floor(log2 t) the doubles next to t are       *)
(* multiples of 2^-K: x rounds above t when x * 2^(K+1) is over 2A + 1,    *)
(* A = floor(t * 2^K), or on it with A odd; when t is the double A / 2^K   *)
(* itself, x rounds below it under 2A - 1 (under 4A - 1 over 2^(K+2) when  *)
(* A is 2^52, the doubles below being twice as dense)                      *)
LadoDelDoble(x, k) ==
  Con([K |-> 52 - Exponente(k),
       d |-> NDivCorta(NMul(Acarrear(<<k>>), Pot2(52 - Exponente(k))), 200)],
      LAMBDA v :
        Con([A |-> Podar(v.d.q), impar |-> Lim(v.d.q, 1) % 2 = 1,
             arriba |-> CmpEscala(NMul(x.c, Pot2(v.K + 1)), x.e,
                                  NAdd(NMul(Podar(v.d.q), <<2>>), <<1>>))],
            LAMBDA w :
              IF w.arriba > 0 \/ (w.arriba = 0 /\ w.impar) THEN 1
              ELSE IF v.d.r # 0 THEN 0 - 1
              ELSE Con(IF w.A = Pot2(52)
                       THEN CmpEscala(NMul(x.c, Pot2(v.K + 2)), x.e,
                                      Podar(NSub(NMul(w.A, <<4>>), <<1>>)))
                       ELSE CmpEscala(NMul(x.c, Pot2(v.K + 1)), x.e,
                                      Podar(NSub(NMul(w.A, <<2>>), <<1>>))),
                       LAMBDA abajo :
                         IF abajo < 0 \/ (abajo = 0 /\ w.impar) THEN 0 - 1
                         ELSE 0)))

(* int centavos of "%.2f" % x for an amount x >= 0 *)
Centavos(x) ==
  Con(Piso100(x),
      LAMBDA q :
        Con(LadoDelDoble(x, 2 * q + 1),
            LAMBDA lado :
              IF lado > 0 THEN q + 1
              ELSE IF lado < 0 THEN q
              ELSE IF q % 2 = 1 THEN q + 1 ELSE q))

(* ====================== the engine: Spec =============================== *)
(* arguments the calls are made with *)
DedInputs == {PADRES_Y_OTROS, CREDITO_HIPOTECARIO, NDeducciones}
MesInputs == {Nada, Idx(11), Idx(12)}
(* agregar_deduccion: a deduction with its own quantity, one with no       *)
(* quantity, the same with a quantity over its cap, and a wrong index      *)
AgregarInputs ==
  {<<PADRES_Y_OTROS, Nada>>, <<CREDITO_HIPOTECARIO, Nada>>,
   <<CREDITO_HIPOTECARIO, PyInt(25000)>>, <<NDeducciones, Nada>>}
(* cambiar_mes: month numbers (0 is position -1, 13 is out of range) and   *)
(* sueldo arguments                                                        *)
CambioInputs == {0, 3, 13}
SueldoInputs ==
  {NoSueldo, SueldoNuevo(5000), ElDelMes(2), ElDelMesPor(2, 2),
   ElDelMesEntre(1, 3), ElDelMesEntre(1, 0)}

Llamada(op, d, q, mes) == [op |-> op, d |-> d, q |-> q, mes |-> mes]
SinIda == [d |-> 0 - 1, total |-> [err |-> OK, val |-> PyInt(0)]]

(* the state Ganancias(sueldo_bruto, autonomo, aguinaldo) leaves *)
Init ==
  /\ sueldo_bruto \in Brutos
  /\ autonomo \in BOOLEAN
  /\ con_aguinaldo \in BOOLEAN
  /\ \E k \in 1..NMeses : meses = Ganancias_init(sueldo_bruto, con_aguinaldo, k)
  /\ cantidades = CantidadesIniciales
  /\ sueldo = Sueldo(0, Temporal)
  /\ pasadas = 0
  /\ traza = << >>
  /\ err = OK
  /\ llamada = Llamada("init", 0, Nada, Nada)
  /\ previo = << >>
  /\ ida = SinIda
  /\ elegido = 0
  /\ nops = 0

(* ganancias.agregar_deduccion(d, q, mes) *)
AgregarPaso(d, q, mes) ==
  /\ nops < MaxOps
  /\ LET r == Ganancias_agregar_deduccion(meses, cantidades, d, q, mes) IN
     /\ meses' = r.meses
     /\ cantidades' = r.cat
     /\ err' = r.err
  /\ nops' = nops + 1
  /\ UNCHANGED <<sueldo_bruto, autonomo, con_aguinaldo, sueldo, pasadas,
                 traza, ida, elegido>>

(* ganancias.eliminar_deduccion(d, mes) *)
EliminarPaso(d, mes) ==
  /\ nops < MaxOps
  /\ LET r == Ganancias_eliminar_deduccion(meses, cantidades, d, mes) IN
     /\ meses' = r.meses
     /\ cantidades' = r.cat
     /\ err' = r.err
  /\ nops' = nops + 1
  /\ UNCHANGED <<sueldo_bruto, autonomo, con_aguinaldo, sueldo, pasadas,
                 traza, ida, elegido>>

(* ganancias.calcular_ganancias() *)
CalcularPaso ==
  /\ pasadas < MaxPasadas
  /\ LET r == Ganancias_calcular_ganancias(meses, cantidades, autonomo) IN
     /\ meses' = r.meses
     /\ traza' = r.traza
     /\ err' = r.err
  /\ pasadas' = pasadas + 1
  /\ UNCHANGED <<sueldo_bruto, autonomo, con_aguinaldo, cantidades, sueldo,
                 ida, elegido, nops>>

(* ganancias.cambiar_mes(mes, sueldo) *)
CambiarPaso(mes, arg) ==
  /\ nops < MaxOps
  /\ LET r == Ganancias_cambiar_mes(meses, mes, arg) IN
     /\ \A m \in 1..NMeses : ~DMenor(Entero(MaxBruto), r.meses[m].bruto)
     /\ meses' = r.meses
     /\ err' = r.err
  /\ nops' = nops + 1
  /\ UNCHANGED <<sueldo_bruto, autonomo, con_aguinaldo, cantidades, sueldo,
                 pasadas, traza, ida, elegido>>

(* here only the name of the last call is kept *)
Agregar(d, q, mes) ==
  /\ AgregarPaso(d, q, mes)
  /\ llamada' = Llamada("agregar", 0, Nada, Nada)
  /\ UNCHANGED previo

Eliminar(d, mes) ==
  /\ EliminarPaso(d, mes)
  /\ llamada' = Llamada("eliminar", 0, Nada, Nada)
  /\ UNCHANGED previo

Cambiar(mes, arg) ==
  /\ CambiarPaso(mes, arg)
  /\ llamada' = Llamada("cambiar", 0, Nada, Nada)
  /\ UNCHANGED previo

Calcular ==
  /\ CalcularPaso
  /\ llamada' = Llamada("calcular", 0, Nada, Nada)
  /\ UNCHANGED previo

Next ==
  \/ \E a \in AgregarInputs, mes \in MesInputs : Agregar(a[1], a[2], mes)
  \/ \E d \in DedInputs, mes \in MesInputs : Eliminar(d, mes)
  \/ \E mes \in CambioInputs, arg \in SueldoInputs : Cambiar(mes, arg)
  \/ Calcular

Spec == Init /\ [][Next]_vars

(* ----------------------- properties of Spec ---------------------------- *)
(* calcular_ganancias has just returned without an exception *)
Completa == llamada.op = "calcular" /\ err = OK

(* the months hold the gross amounts the constructor left *)
BrutosDeInit ==
  \A m \in 1..NMeses :
    meses[m].bruto = Ganancias_init(sueldo_bruto, con_aguinaldo, 1)[m].bruto

(* no two months hold the same object or the same list *)
SinCompartir ==
  \A i, j \in 1..NMeses :
    i # j => meses[i].id # meses[j].id /\ meses[i].lista # meses[j].lista

(* C1: the documented reference run - gross 8000, payroll employee, bonus, *)
(* PADRES_Y_OTROS attached twice to the whole year, one computation pass - *)
(* stores 191.43 as January's tax and 821.73 as June's, to two decimals.   *)
C1_Caso ==
  /\ sueldo_bruto = 8000 /\ ~autonomo /\ con_aguinaldo
  /\ pasadas = 1 /\ Completa
  /\ BrutosDeInit
  /\ cantidades = CantidadesIniciales
  /\ \A m \in 1..NMeses :
       meses[m].deducciones =
         <<PADRES_Y_OTROS, PADRES_Y_OTROS, GANANCIA_NO_IMPONIBLE,
           DEDUCCION_ESPECIAL_REL>>

C1_Referencia ==
  C1_Caso => /\ Centavos(Sueldo_impuesto_ganancias(meses[1]).val) = 19143
             /\ Centavos(Sueldo_impuesto_ganancias(meses[6]).val) = 82173

C1_Witness == C1_Caso /\ Centavos(meses[6].impuesto) = 82173

(* C2: when a computation pass has just completed, the stored tax of each  *)
(* of the 12 months is >= 0 and is not the "not computed" sentinel.        *)
C2_Piso ==
  Completa => \A m \in 1..NMeses :
                /\ ~DMenor(meses[m].impuesto, Cero)
                /\ Sueldo_impuesto_ganancias(meses[m]).err = OK

C2_Witness ==
  /\ Completa
  /\ \E m \in 1..NMeses :
       DMenor(traza[m].impuesto, Cero) /\ meses[m].impuesto = Cero

(* C3: right after construction, with the bonus enabled months 6 and 12    *)
(* hold G + G/2 and the other ten months G, 13*G in the year; with the     *)
(* bonus disabled every month holds G, 12*G in the year.                   *)
C3_Aguinaldo ==
  llamada.op = "init" =>
    LET G == sueldo_bruto IN
    IF con_aguinaldo
    THEN /\ \A m \in 1..NMeses :
              meses[m].bruto =
                IF m \in {6, 12} THEN DDiv(Entero(3 * G), Entero(2))
                ELSE Entero(G)
         /\ Ganancias_bruto_anual(meses) = Entero(13 * G)
    ELSE /\ \A m \in 1..NMeses : meses[m].bruto = Entero(G)
         /\ Ganancias_bruto_anual(meses) = Entero(12 * G)

C3_Witness ==
  /\ llamada.op = "init" /\ con_aguinaldo /\ sueldo_bruto = 8000
  /\ meses[6].bruto = Entero(12000)
  /\ Ganancias_bruto_anual(meses) = Entero(104000)

(* the quantity of the progressivity claim at month m of the pass that     *)
(* has just completed: the stored tax of the month plus impuesto_acumulado *)
(* at its start                                                            *)
Q(m) == DSuma(meses[m].impuesto, traza[m].acum_previo)

(* the twelve months hold the same gross and the same deductions *)
Constante ==
  \A i, j \in 1..NMeses :
    /\ meses[i].bruto = meses[j].bruto
    /\ meses[i].deducciones = meses[j].deducciones

(* C8: when the gross is the same in the twelve months and so are the      *)
(* deductions, Q(m) is non-decreasing in m along one computation pass.     *)
C8_Progresivo ==
  (Completa /\ Constante) =>
    \A m \in 1..(NMeses - 1) : ~DMenor(Q(m + 1), Q(m))

C8_Witness ==
  /\ Completa /\ Constante
  /\ DMenor(Cero, Q(1))
  /\ \A m \in 1..(NMeses - 1) : DMenor(Q(m), Q(m + 1))

RECURSIVE SumaTabla(_, _)
SumaTabla(tz, n) ==
  IF n = 0 THEN Cero ELSE DSuma(SumaTabla(tz, n - 1), tz[n].tabla)

(* C10 as stated: at each month impuesto_acumulado grows by the bracket    *)
(* formula's value rawTax, so after month m it is the sum of rawTax over   *)
(* months 1..m.                                                            *)
C10_Original ==
  \A m \in 1..Len(traza) :
    /\ traza[m].acum = DSuma(traza[m].acum_previo, traza[m].tabla)
    /\ traza[m].acum = SumaTabla(traza, m)

(* |a| *)
DAbs(a) == IF a.s < 0 THEN Opuesto(a) ELSE a

(* 2 * 10^-27 *)
Tolerancia == [s |-> 1, c |-> <<20>>, e |-> 0 - 7]

(* a and b differ by no more than the rounding of two 28-digit operations  *)
(* on amounts of the size of x and y: 2 * 10^-27 * (|x| + |y|)             *)
SalvoRedondeo(a, b, x, y) ==
  ~DMenor(DPor(Tolerancia, DSuma(DAbs(x), DAbs(y))), DAbs(DResta(a, b)))

(* C10 amended: at each month rawTax is the bracket formula's value, the   *)
(* tax stored is max(rawTax - impuesto_acumulado, 0), and                  *)
(* impuesto_acumulado, which starts the pass at 0, grows by the pre-floor  *)
(* difference rawTax - impuesto_acumulado (both operations rounded to 28   *)
(* digits), not by rawTax; so after month m it is the rawTax of month m,   *)
(* up to 2 * 10^-27 * (|rawTax| + |impuesto_acumulado before|), and is the *)
(* value month m + 1 starts from.                                          *)
C10_Acumulado ==
  \A m \in 1..Len(traza) :
    /\ traza[m].tabla = ImpuestoTabla(traza[m].idx, traza[m].gravado, m)
    /\ traza[m].acum_previo = IF m = 1 THEN Cero ELSE traza[m - 1].acum
    /\ traza[m].impuesto = DResta(traza[m].tabla, traza[m].acum_previo)
    /\ traza[m].guardado = dec_max(traza[m].impuesto, Cero)
    /\ (Completa /\ SinCompartir) => meses[m].impuesto = traza[m].guardado
    /\ traza[m].acum = DSuma(traza[m].acum_previo, traza[m].impuesto)
    /\ SalvoRedondeo(traza[m].acum, traza[m].tabla,
                     traza[m].tabla, traza[m].acum_previo)

(* a pass where impuesto_acumulado is far from the sum of rawTax at month  *)
(* 2, differs from rawTax in the last digits at some month, and some month *)
(* has rawTax below impuesto_acumulado                                     *)
C10_Witness ==
  /\ Completa
  /\ DMenor(Entero(1), traza[2].acum_previo)
  /\ DMenor(Entero(1), DResta(SumaTabla(traza, 2), traza[2].acum))
  /\ \E m \in 1..NMeses : traza[m].acum # traza[m].tabla
  /\ \E m \in 1..NMeses : DMenor(traza[m].tabla, traza[m].acum_previo)

(* ============ the engine with its calls recorded: SpecLlamadas ========= *)
(* with the call recorded, month 0 (which "if mes" takes for no month) is  *)
(* told apart from None                                                    *)
MesInputsL == MesInputs \cup {Idx(0)}
(* the sueldo arguments of cambiar_mes that change which objects the months *)
(* hold                                                                    *)
SueldoInputsL == {NoSueldo, SueldoNuevo(5000), ElDelMes(2)}

AgregarL(d, q, mes) ==
  /\ AgregarPaso(d, q, mes)
  /\ llamada' = Llamada("agregar", d, q, mes)
  /\ previo' = meses

EliminarL(d, mes) ==
  /\ EliminarPaso(d, mes)
  /\ llamada' = Llamada("eliminar", d, Nada, mes)
  /\ previo' = meses

CalcularL ==
  /\ CalcularPaso
  /\ llamada' = Llamada("calcular", 0, Nada, Nada)
  /\ previo' = meses

CambiarL(mes, arg) ==
  /\ CambiarPaso(mes, arg)
  /\ llamada' = [Llamada("cambiar", 0, Nada, Idx(mes)) EXCEPT !.q = arg]
  /\ previo' = meses

NextLlamadas ==
  \/ \E a \in AgregarInputs, mes \in MesInputsL : AgregarL(a[1], a[2], mes)
  \/ \E d \in DedInputs, mes \in MesInputsL : EliminarL(d, mes)
  \/ \E mes \in CambioInputs, arg \in SueldoInputsL : CambiarL(mes, arg)
  \/ CalcularL

SpecLlamadas == Init /\ [][NextLlamadas]_vars

(* C6: a call of the engine's attach (detach) with month position m given, *)
(* January included, and a valid catalog index d appends d to (removes d   *)
(* from) month m only and leaves the other eleven months as they were;     *)
(* only a call without a month acts on the twelve months.                  *)
C6_MesObjetivo ==
  \A m \in 0..(NMeses - 1) :
    (/\ llamada.op \in {"agregar", "eliminar"}
     /\ llamada.mes = Idx(m)
     /\ llamada.d \in 0..(NDeducciones - 1)
     /\ llamada.op = "eliminar" => Contiene(previo[m + 1].deducciones, llamada.d))
    =>
    /\ meses[m + 1].deducciones =
         IF llamada.op = "agregar"
         THEN Append(previo[m + 1].deducciones, llamada.d)
         ELSE list_remove(previo[m + 1].deducciones, llamada.d)
    /\ \A j \in 1..NMeses :
         j # m + 1 => meses[j].deducciones = previo[j].deducciones

(* ================= one Sueldo on its own: SpecSueldo =================== *)
(* deductions the record may already hold, attached without a quantity *)
Previas == {<< >>, <<CONYUGE>>, <<PADRES_Y_OTROS>>, <<CREDITO_HIPOTECARIO>>,
            <<CONYUGE, PADRES_Y_OTROS>>, <<CONYUGE, CONYUGE>>}
TodosLosTipos == (0 - 2)..(NDeducciones + 1)
Cantidades == {Nada, PyInt(5000), PyInt(25000)}

InitSueldo ==
  /\ sueldo_bruto \in Brutos
  /\ autonomo = FALSE
  /\ con_aguinaldo = FALSE
  /\ meses = Ganancias_init(sueldo_bruto, con_aguinaldo, 1)
  /\ cantidades = CantidadesIniciales
  /\ \E ds \in Previas :
       sueldo = [Sueldo(sueldo_bruto, Temporal) EXCEPT !.deducciones = ds]
  /\ pasadas = 0
  /\ traza = << >>
  /\ err = OK
  /\ llamada = Llamada("init", 0, Nada, Nada)
  /\ previo = << >>
  /\ ida = [fase |-> "nada"] @@ SinIda
  /\ elegido = 0
  /\ nops = 0

(* sueldo.agregar_deduccion(d, q) *)
AgregarASueldo(d, q) ==
  /\ nops < MaxOps
  /\ LET r == Sueldo_agregar_deduccion(sueldo, cantidades, d, q) IN
     /\ sueldo' = r.s
     /\ cantidades' = r.cat
     /\ err' = r.err
     /\ ida' = IF r.err = OK
               THEN [fase |-> "agregada", d |-> d,
                     total |-> SumaCantidades(cantidades, sueldo.deducciones)]
               ELSE [fase |-> "nada"] @@ SinIda
  /\ llamada' = Llamada("agregar", d, q, Nada)
  /\ previo' = <<sueldo>>
  /\ nops' = nops + 1
  /\ UNCHANGED <<sueldo_bruto, autonomo, con_aguinaldo, meses, pasadas, traza,
                 elegido>>

(* sueldo.eliminar_deduccion(d) *)
EliminarDeSueldo(d) ==
  /\ nops < MaxOps
  /\ LET r == Sueldo_eliminar_deduccion(sueldo, cantidades, d) IN
     /\ sueldo' = r.s
     /\ cantidades' = r.cat
     /\ err' = r.err
     /\ ida' = IF r.err = OK /\ ida.fase = "agregada" /\ ida.d = d
               THEN [ida EXCEPT !.fase = "vuelta"]
               ELSE [fase |-> "nada"] @@ SinIda
  /\ llamada' = Llamada("eliminar", d, Nada, Nada)
  /\ previo' = <<sueldo>>
  /\ nops' = nops + 1
  /\ UNCHANGED <<sueldo_bruto, autonomo, con_aguinaldo, meses, pasadas, traza,
                 elegido>>

NextSueldo ==
  \/ \E d \in TodosLosTipos, q \in Cantidades : AgregarASueldo(d, q)
  \/ \E d \in TodosLosTipos : EliminarDeSueldo(d)

SpecSueldo == InitSueldo /\ [][NextSueldo]_vars

(* the cap the claim gives each entry for a configured quantity q, in      *)
(* centavos: none, the literal, or 0.4 * q for {_cantidad}                 *)
TopeDeclarado(d, q) ==
  LET e == Entrada(d) IN
  IF e.max = << >> THEN Maxint
  ELSE IF Placeholders(e.max) = << >> THEN Dec(Eval(e.max))
  ELSE Dec((40 * q.v) \div 100)

(* C4: for each of the 15 catalog entries with a positive configured       *)
(* quantity q, reading the effective amount succeeds and gives             *)
(* min(q, resolved cap), so it never exceeds the cap.                      *)
C4_Cantidad ==
  \A d \in 0..(NDeducciones - 1) :
    Truthy(cantidades[d]) =>
      LET r == Deduccion_get_cantidad(cantidades, d) IN
      /\ r.err = OK
      /\ Placeholders(Entrada(d).max) # <<Ph("ganancia_neta_anual")>> =>
           r.val.v = py_min(cantidades[d], TopeDeclarado(d, cantidades[d])).v

(* C5: attach and detach with an index outside [0, 15), 15 included, fail  *)
(* with the ValueError "Tipo de deduccion invalida" and leave the record's *)
(* deductions as they were.                                                *)
C5_Indice ==
  (/\ llamada.op \in {"agregar", "eliminar"}
   /\ (llamada.d < 0 \/ llamada.d >= NDeducciones))
  => /\ err = ErrTipo
     /\ sueldo.deducciones = previo[1].deducciones

(* C7: attaching d, with or without an override quantity, and then         *)
(* detaching d on the same record restores the record's total of           *)
(* effective deduction amounts.                                            *)
C7_IdaYVuelta ==
  (ida.fase = "vuelta" /\ ida.total.err = OK) =>
    LET t == SumaCantidades(cantidades, sueldo.deducciones) IN
    /\ t.err = OK
    /\ t.val.v = ida.total.val.v

(* ======== the constructor's _calcular_aguinaldo: SpecAguinaldo ========= *)
(* gross salaries the constructor is given, none included *)
BrutosAguinaldo == {0, 1, 3, 5000, 7800, 8000, 12000, 16000}

(* Ganancias.__init__ before its last line: twelve Sueldo(sueldo_bruto) *)
InitAguinaldo ==
  /\ sueldo_bruto \in BrutosAguinaldo
  /\ autonomo = FALSE
  /\ con_aguinaldo \in BOOLEAN
  /\ meses = DoceSueldos(sueldo_bruto)
  /\ cantidades = CantidadesIniciales
  /\ sueldo = Sueldo(0, Temporal)
  /\ pasadas = 0
  /\ traza = << >>
  /\ err = OK
  /\ llamada = Llamada("init", 0, Nada, Nada)
  /\ previo = << >>
  /\ ida = SinIda
  /\ elegido = 0
  /\ nops = 0

(* self._calcular_aguinaldo(), max(self.meses) returning position k when   *)
(* the aguinaldo is enabled                                                *)
Aguinaldo(k) ==
  /\ llamada.op = "init"
  /\ meses' = Ganancias_calcular_aguinaldo(meses, con_aguinaldo, k)
  /\ elegido' = IF con_aguinaldo THEN k ELSE 0
  /\ llamada' = Llamada("aguinaldo", 0, Nada, Nada)
  /\ previo' = meses
  /\ UNCHANGED <<sueldo_bruto, autonomo, con_aguinaldo, cantidades, sueldo,
                 pasadas, traza, err, ida, nops>>

NextAguinaldo == \E k \in 1..NMeses : Aguinaldo(k)

SpecAguinaldo == InitAguinaldo /\ [][NextAguinaldo]_vars

(* months of the semester closing at `ciclo` whose gross is not zero *)
MesesConBruto(ms, ciclo) ==
  Cardinality({i \in (ciclo - 5)..ciclo : ~EsCero(ms[i].bruto)})

====
